---------------------------- MODULE Spec2Model ----------------------------
(***************************************************************************)
(* The annual cashflow projection of ai_retirement_advisor.py:             *)
(* calculate_retirement_cashflow, calc_housing_expense and the input       *)
(* widgets that feed them (age inputs, housing inputs, the one-time        *)
(* expense list).                                                          *)
(*                                                                         *)
(* Python floats are modelled as IEEE-754 doubles with their rounding: a   *)
(* 53-bit mantissa held in multi-limb naturals, every operation rounded    *)
(* to nearest, ties to even; int() is truncation toward zero.  The power   *)
(* float ** int is pow() of the C library, which is accurate to less than  *)
(* one unit in the last place and not more: it returns the double below or *)
(* the double above the power, and which of the two depends on the library *)
(* the interpreter is linked with.  Rates are whole percents and amounts   *)
(* whole units.  Between two runs of the script the user edits a basic     *)
(* input, edits home_price (update_payments) or adds and deletes one-time  *)
(* expenses.                                                               *)
(***************************************************************************)
EXTENDS Integers, Sequences, FiniteSets, Bags

(***************************************************************************)
(* Bounds of the model.                                                    *)
(***************************************************************************)
\* the longest projection explored: expected_lifespan is retirement_age or
\* current_age + MaxSpan
MaxSpan == 3
\* largest number of entries in the one-time expense list
MaxLump == 2

(***************************************************************************)
(* Input domains.                                                          *)
(***************************************************************************)
CurrentAges == {40}
RetirementAges == {40, 41}
MonthlyExpenses == {1000}
AnnualSalaries == {30000}
SalaryGrowths == {50}
InvestableAssets == {20000}
InvestmentReturns == {0, 50}
InflationRates == {0, 100}
RetirementPensions == {1000}
MonthlyRents == {1000}
BuyAges == {39, 41}
HomePrices == {4595}
NewHomePrices == {5850}
DownPayments == {500}
LoanAmounts == {4095}
LoanTerms == {2}
LoanRates == {0, 75}
\* what is typed into new_age and new_amt before the add button is pressed
NewEntries == {<<39, 700>>, <<41, 700>>, <<41, -500>>, <<41, 0>>}

\* the two values of the housing selectbox: "租房" and "購房"
Rent == "rent"
Buy == "buy"

(***************************************************************************)
(* Evaluation order.  Python evaluates an expression once and keeps its    *)
(* value; an operator of TLA+ is a macro, and its argument may be          *)
(* evaluated again at every use.  Bind gives the first meaning: a bound    *)
(* variable holds a value.                                                 *)
(***************************************************************************)
\* F of the value of x
Bind(x, F(_)) == CHOOSE r \in {F(v) : v \in {x}} : TRUE

\* F of the values of x and y
Bind2(x, y, F(_, _)) == CHOOSE r \in {F(v, w) : v \in {x}, w \in {y}} : TRUE

(***************************************************************************)
(* Natural numbers of any size: little-endian sequences of limbs in base   *)
(* 2^15 without high zero limbs (0 is the empty sequence).  Python ints    *)
(* are unbounded and a double carries 53 significant bits, more than the   *)
(* 32-bit integers of TLC hold.  Carries are found by lookahead            *)
(* and not by a pass over the limbs, so that the evaluation stays shallow. *)
(***************************************************************************)
Base == 32768

LimbBits == 15

Abs(x) == IF x < 0 THEN -x ELSE x

Max(x, y) == IF x < y THEN y ELSE x

\* the index of the highest non-zero limb, 0 if there is none
BTop(a) ==
    IF \A k \in 1..Len(a) : a[k] = 0 THEN 0
    ELSE CHOOSE k \in 1..Len(a) : a[k] # 0 /\ \A j \in (k + 1)..Len(a) : a[j] = 0

BStrip(a) == IF Len(a) = 0 THEN <<>>
             ELSE IF a[Len(a)] # 0 THEN a
             ELSE SubSeq(a, 1, BTop(a))

\* the number whose limbs are f[1], f[2], ... for a function f on 1..n, n > 0
BFromLimbs(f) == Bind(<<>> \o f, LAMBDA a : BStrip(a))

RECURSIVE BFromInt(_)
BFromInt(n) == IF n = 0 THEN <<>> ELSE <<n % Base>> \o BFromInt(n \div Base)

RECURSIVE BToIntAt(_, _)
BToIntAt(a, k) == IF k > Len(a) THEN 0 ELSE a[k] + Base * BToIntAt(a, k + 1)

BToInt(a) == BToIntAt(a, 1)

BLimb(a, k) == IF 1 <= k /\ k <= Len(a) THEN a[k] ELSE 0

\* the limb-wise sums s carry into limb k iff some lower limb overflows and
\* every limb between is full
BCarryInto(s, k) ==
    IF \E j \in 1..(k - 1) : /\ s[j] >= Base
                             /\ \A l \in (j + 1)..(k - 1) : s[l] = Base - 1
    THEN 1 ELSE 0

BAdd(a, b) ==
    Bind(<<>> \o [k \in 1..(Max(Len(a), Len(b)) + 1) |-> BLimb(a, k) + BLimb(b, k)],
         LAMBDA s : BFromLimbs([k \in 1..Len(s) |-> (s[k] + BCarryInto(s, k)) % Base]))

\* limb k borrows iff some lower limb of a is below that of b and every limb
\* between is equal
BBorrowFrom(a, b, k) ==
    IF \E j \in 1..(k - 1) : /\ a[j] < BLimb(b, j)
                             /\ \A l \in (j + 1)..(k - 1) : a[l] = BLimb(b, l)
    THEN 1 ELSE 0

\* a - b for a >= b
BSub(a, b) ==
    IF a = <<>> THEN <<>>
    ELSE BFromLimbs([k \in 1..Len(a) |->
                        (a[k] - BLimb(b, k) - BBorrowFrom(a, b, k) + Base) % Base])

\* -1, 0 or 1
BCmp(a, b) ==
    IF Len(a) # Len(b) THEN (IF Len(a) < Len(b) THEN -1 ELSE 1)
    ELSE IF a = b THEN 0
    ELSE Bind(CHOOSE k \in 1..Len(a) : a[k] # b[k] /\ \A j \in (k + 1)..Len(a) : a[j] = b[j],
              LAMBDA top : IF a[top] < b[top] THEN -1 ELSE 1)

\* a * d for 0 <= d < Base: the low and the high halves of the limb
\* products, added
BMulSmall(a, d) ==
    IF d = 0 \/ a = <<>> THEN <<>>
    ELSE IF d = 1 THEN a
    ELSE Bind2(<<>> \o [k \in 1..Len(a) |-> (a[k] * d) % Base],
               <<0>> \o [k \in 1..Len(a) |-> (a[k] * d) \div Base],
               LAMBDA lo, hi : BAdd(lo, hi))

\* f[1] + ... + f[n] for naturals f[j]: the size of the bag with f[j] + 1
\* copies of each j, less n
SumTo(f, n) == BagCardinality([j \in 1..n |-> f[j] + 1]) - n

\* the number with the digits s[k] < Base * Base
BFromColumns(s) ==
    Bind2(<<>> \o [k \in 1..Len(s) |-> s[k] % Base],
          <<0>> \o [k \in 1..Len(s) |-> s[k] \div Base],
          LAMBDA lo, hi : BAdd(lo, hi))

\* schoolbook product by columns: column k sums the low halves of the limb
\* products a[j] * b[k + 1 - j] and the high halves of those of column k - 1
BMul(a, b) ==
    IF a = <<>> \/ b = <<>> THEN <<>>
    ELSE IF Len(b) = 1 THEN BMulSmall(a, b[1])
    ELSE IF Len(a) = 1 THEN BMulSmall(b, a[1])
    ELSE LET P(j, k) == a[j] * BLimb(b, k + 1 - j)
         IN  Bind(<<>> \o [k \in 1..(Len(a) + Len(b)) |->
                              SumTo([j \in 1..Len(a) |->
                                        (P(j, k) % Base) + (P(j, k - 1) \div Base)],
                                    Len(a))],
                  LAMBDA col : BFromColumns(col))

\* a * 2^k
BShl(a, k) ==
    IF a = <<>> \/ k = 0 THEN a
    ELSE Bind2(k \div LimbBits, k % LimbBits, LAMBDA q, r :
           BFromLimbs([j \in 1..(Len(a) + q + 1) |->
                         (BLimb(a, j - q) % (2 ^ (LimbBits - r))) * (2 ^ r)
                         + (BLimb(a, j - q - 1) \div (2 ^ (LimbBits - r)))]))

\* bit k of a, bit 0 the lowest
BBit(a, k) == (BLimb(a, k \div LimbBits + 1) \div (2 ^ (k % LimbBits))) % 2

\* floor(a / 2^k)
BShr(a, k) ==
    IF k \div LimbBits >= Len(a) THEN <<>>
    ELSE IF k = 0 THEN a
    ELSE Bind2(k \div LimbBits, k % LimbBits, LAMBDA q, r :
           BFromLimbs([j \in 1..(Len(a) - q) |->
                         (a[j + q] \div (2 ^ r))
                         + (BLimb(a, j + q + 1) % (2 ^ r)) * (2 ^ (LimbBits - r))]))

RECURSIVE BDivSmallAt(_, _, _, _)
BDivSmallAt(a, d, k, r) ==
    IF k = 0 THEN <<<<>>, r>>
    ELSE Bind(r * Base + a[k], LAMBDA t :
           Bind(BDivSmallAt(a, d, k - 1, t % d), LAMBDA rest :
             <<Append(rest[1], t \div d), rest[2]>>))

\* <<quotient, remainder>> of a by d for 0 < d < Base; the remainder is an
\* integer
BDivModSmall(a, d) ==
    Bind(BDivSmallAt(a, d, Len(a), 0), LAMBDA qr : <<BStrip(qr[1]), qr[2]>>)

\* number of bits of 0 <= n < Base
BitLenSmall(n) == CHOOSE t \in 0..LimbBits : n < 2 ^ t /\ (t = 0 \/ n >= 2 ^ (t - 1))

BBitLen(a) == IF a = <<>> THEN 0
              ELSE LimbBits * (Len(a) - 1) + BitLenSmall(a[Len(a)])

\* number of low zero bits of 0 < n < Base
TrailingZerosSmall(n) ==
    CHOOSE t \in 0..(LimbBits - 1) : n % (2 ^ t) = 0 /\ n % (2 ^ (t + 1)) # 0

\* number of low zero bits of a > 0
BTrailingZeros(a) ==
    Bind(CHOOSE j \in 1..Len(a) : a[j] # 0 /\ \A l \in 1..(j - 1) : a[l] = 0,
         LAMBDA k : LimbBits * (k - 1) + TrailingZerosSmall(a[k]))

\* b * d <= r
BFits(r, b, d) == Bind(BMulSmall(b, d), LAMBDA p : BCmp(p, r) <= 0)

\* the next limb of the quotient: the largest d < Base with b * d <= r, for
\* b <= r < b * Base and the top limb of b at least Base / 2.  The quotient
\* of the top two limbs of r by the top limb of b is at most 2 above it.
BDigit(r, b) ==
    Bind((BLimb(r, Len(b) + 1) * Base + BLimb(r, Len(b))) \div b[Len(b)], LAMBDA est :
      Bind(IF est > Base - 1 THEN Base - 1 ELSE est, LAMBDA hi :
        IF BFits(r, b, hi) THEN hi
        ELSE IF BFits(r, b, hi - 1) THEN hi - 1
        ELSE hi - 2))

\* one step of the long division: <<d, r2>> with <<x>> \o r = b * d + r2
BDivStep(x, b, r) ==
    Bind(BFromLimbs(<<x>> \o r), LAMBDA r1 :
      Bind(IF BCmp(r1, b) < 0 THEN 0 ELSE BDigit(r1, b), LAMBDA d :
        IF d = 0 THEN <<0, r1>>
        ELSE Bind(BMulSmall(b, d), LAMBDA p : <<d, BSub(r1, p)>>)))

\* long division, one limb of the quotient for each of the limbs 1..k of a
\* from the top; q holds the limbs found and r < b is the remainder so far
RECURSIVE BDivLimbs(_, _, _, _, _)
BDivLimbs(a, b, k, q, r) ==
    IF k = 0 THEN <<q, r>>
    ELSE Bind(BDivStep(a[k], b, r), LAMBDA st :
           BDivLimbs(a, b, k - 1, <<st[1]>> \o q, st[2]))

\* <<quotient, remainder>> of a by b > 0, both of any size; a and b are
\* shifted until the top limb of b is at least Base / 2
BDivMod(a, b) ==
    IF Len(b) = 1
    THEN Bind(BDivModSmall(a, b[1]), LAMBDA qr : <<qr[1], BFromInt(qr[2])>>)
    ELSE IF Len(a) < Len(b) THEN <<<<>>, a>>
    ELSE Bind(LimbBits - BitLenSmall(b[Len(b)]), LAMBDA sh :
           Bind2(BShl(a, sh), BShl(b, sh), LAMBDA an, bn :
             Bind(Len(an) - Len(bn) + 1, LAMBDA k :
               Bind(BDivLimbs(an, bn, k, <<>>, SubSeq(an, k + 1, Len(an))), LAMBDA qr :
                 Bind(BStrip(qr[1]), LAMBDA q : <<q, BShr(qr[2], sh)>>)))))

(***************************************************************************)
(* IEEE-754 doubles.  A double is <<s, m, e>>: the value s * m * 2^e with  *)
(* sign s in {-1, 0, 1}, m an odd natural of at most 53 bits (limbs as     *)
(* above) and e an integer; zero is <<0, <<>>, 0>>.  Every operation       *)
(* rounds its exact result to 53 bits, ties to even, as the hardware does. *)
(* The exponent range (overflow, subnormals), -0.0, inf and nan are not    *)
(* modelled: the amounts and rates of the program stay far from them.      *)
(***************************************************************************)
MantBits == 53

DZero == <<0, <<>>, 0>>

\* the representation with an odd mantissa
DCanon(s, m, e) ==
    Bind(m, LAMBDA mv :
      IF mv = <<>> THEN DZero
      ELSE Bind(BTrailingZeros(mv), LAMBDA tz :
             IF tz = 0 THEN <<s, mv, e>> ELSE <<s, BShr(mv, tz), e + tz>>))

\* the double nearest to s * (m + f) * 2^e, where 0 < f < 1 if sticky and
\* f = 0 otherwise; with sticky, m has more than 53 bits
DRound(s, m, e, sticky) ==
    Bind2(m, e, LAMBDA mv, ev :
      Bind(BBitLen(mv) - MantBits, LAMBDA sh :
        IF sh <= 0 THEN DCanon(s, mv, ev)
        ELSE Bind(BShr(mv, sh), LAMBDA q :
               LET half == BBit(mv, sh - 1) = 1
                   below == BTrailingZeros(mv) < sh - 1
                   up == half /\ (below \/ sticky \/ q[1] % 2 = 1)
               IN  DCanon(s, IF up THEN BAdd(q, <<1>>) ELSE q, ev + sh))))

\* the double next to s * (m + f) * 2^e toward zero, or away from zero if
\* up; the value itself when it is a double
DRoundDir(s, m, e, sticky, up) ==
    Bind2(m, e, LAMBDA mv, ev :
      Bind(BBitLen(mv) - MantBits, LAMBDA sh :
        IF sh <= 0 THEN DCanon(s, mv, ev)
        ELSE Bind(BShr(mv, sh), LAMBDA q :
               LET inexact == sticky \/ BTrailingZeros(mv) < sh
               IN  DCanon(s, IF up /\ inexact THEN BAdd(q, <<1>>) ELSE q, ev + sh))))

\* float(n) for an int n
DFromInt(n) ==
    Bind(n, LAMBDA nv :
      IF nv = 0 THEN DZero
      ELSE DCanon(IF nv < 0 THEN -1 ELSE 1, BFromInt(Abs(nv)), 0))

DNeg(x) == Bind(x, LAMBDA xv : <<-xv[1], xv[2], xv[3]>>)

DAdd(x, y) ==
    Bind2(x, y, LAMBDA xv, yv :
      IF xv[1] = 0 THEN yv
      ELSE IF yv[1] = 0 THEN xv
      ELSE Bind(IF xv[3] < yv[3] THEN xv[3] ELSE yv[3], LAMBDA e :
             Bind2(BShl(xv[2], xv[3] - e), BShl(yv[2], yv[3] - e), LAMBDA ax, ay :
               IF xv[1] = yv[1] THEN DRound(xv[1], BAdd(ax, ay), e, FALSE)
               ELSE Bind(BCmp(ax, ay), LAMBDA c :
                      IF c = 0 THEN DZero
                      ELSE IF c > 0 THEN DRound(xv[1], BSub(ax, ay), e, FALSE)
                      ELSE DRound(yv[1], BSub(ay, ax), e, FALSE)))))

DSub(x, y) == DAdd(x, DNeg(y))

DMul(x, y) ==
    Bind2(x, y, LAMBDA xv, yv :
      IF xv[1] = 0 \/ yv[1] = 0 THEN DZero
      ELSE DRound(xv[1] * yv[1], BMul(xv[2], yv[2]), xv[3] + yv[3], FALSE))

\* s * m * 2^e divided by the natural d > 0, rounded once
DRoundQuotient(s, m, e, d) ==
    IF d = <<1>> THEN DRound(s, m, e, FALSE)
    ELSE Bind(Max(MantBits + 2 + BBitLen(d) - BBitLen(m), 0), LAMBDA k :
           Bind(BShl(m, k), LAMBDA n :
             Bind(BDivMod(n, d), LAMBDA qr :
               DRound(s, qr[1], e - k, qr[2] # <<>>))))

\* x / y for y # 0.0 (the callers test for a zero divisor first)
DDiv(x, y) ==
    Bind2(x, y, LAMBDA xv, yv :
      IF xv[1] = 0 THEN DZero
      ELSE IF Len(xv[2]) = 1 /\ Len(yv[2]) = 1 /\ xv[2][1] % yv[2][1] = 0
           THEN DCanon(xv[1] * yv[1], <<xv[2][1] \div yv[2][1]>>, xv[3] - yv[3])
      ELSE DRoundQuotient(xv[1] * yv[1], xv[2], xv[3] - yv[3], yv[2]))

\* working precision of the power
WideBits == 150

\* <<m, e, inexact>> cut down to WideBits bits
WCut(m, e, inexact) ==
    Bind(m, LAMBDA mv :
      Bind(BBitLen(mv) - WideBits, LAMBDA sh :
        IF sh <= 0 THEN <<mv, e, inexact>>
        ELSE <<BShr(mv, sh), e + sh, inexact \/ BTrailingZeros(mv) < sh>>))

WMul(x, y) == WCut(BMul(x[1], y[1]), x[2] + y[2], x[3] \/ y[3])

\* (m * 2^e) ^ n for n >= 0 by squaring, exact while it fits WideBits bits
RECURSIVE WPow(_, _, _)
WPow(m, e, n) ==
    IF n = 0 THEN <<<<1>>, 0, FALSE>>
    ELSE Bind(WPow(m, e, n \div 2), LAMBDA h :
           Bind(WMul(h, h), LAMBDA sq :
             IF n % 2 = 0 THEN sq ELSE WMul(sq, <<m, e, FALSE>>)))

\* x ** n for a double x # 0.0 and an int n before it is rounded:
\* <<s, m, e, sticky>> for s * (m + f) * 2^e, where 0 < f < 1 if sticky and
\* f = 0 otherwise
PowWide(x, n) ==
    Bind2(x, n, LAMBDA xv, nv :
      Bind2(IF nv % 2 = 0 THEN 1 ELSE xv[1], WPow(xv[2], xv[3], Abs(nv)), LAMBDA s, w :
        IF nv >= 0 THEN <<s, w[1], w[2], w[3]>>
        ELSE IF w[1] = <<1>> THEN <<s, <<1>>, -w[2], FALSE>>
        ELSE Bind(MantBits + 2 + BBitLen(w[1]), LAMBDA k :
               Bind(BDivMod(BShl(<<1>>, k), w[1]), LAMBDA qr :
                 <<s, qr[1], -w[2] - k, w[3] \/ qr[2] # <<>>>>))))

\* x ** n rounded to the double next to it toward zero, or away from zero
\* if up; the power itself when it is a double
DPow(x, n, up) ==
    Bind(PowWide(x, n), LAMBDA w : DRoundDir(w[1], w[2], w[3], w[4], up))

\* what x ** n can be: pow() of the C library returns a double less than
\* one unit in the last place away from the power
PowOutcomes(x, n) ==
    Bind(PowWide(x, n), LAMBDA w : {DRoundDir(w[1], w[2], w[3], w[4], FALSE),
                                    DRoundDir(w[1], w[2], w[3], w[4], TRUE)})

\* int(x): truncation toward zero
DTrunc(x) ==
    Bind(x, LAMBDA xv :
      IF xv[1] = 0 THEN 0
      ELSE Bind(IF xv[3] >= 0 THEN BShl(xv[2], xv[3]) ELSE BShr(xv[2], -xv[3]),
                LAMBDA a : xv[1] * BToInt(a)))

\* x > 0
DPos(x) == x[1] > 0

\* pct / 100
Pct(pct) == DDiv(DFromInt(pct), DFromInt(100))

\* 1 + pct / 100
OnePlusPct(pct) == DAdd(DFromInt(1), Pct(pct))

(***************************************************************************)
(* calc_housing_expense                                                    *)
(***************************************************************************)
calc_housing_expense_late(age, rent_or_buy, monthly_rent, buy_age, down_payment, monthly_mortgage, loan_term) ==
    IF rent_or_buy = Rent THEN monthly_rent * 12
    ELSE IF age < buy_age THEN monthly_rent * 12
    ELSE IF age = buy_age
         THEN DTrunc(DAdd(DFromInt(down_payment), DMul(monthly_mortgage, DFromInt(12))))
    ELSE IF buy_age < age /\ age <= buy_age + loan_term
         THEN DTrunc(DMul(monthly_mortgage, DFromInt(12)))
    ELSE 0

calc_housing_expense(age, rent_or_buy, monthly_rent, buy_age, down_payment, monthly_mortgage, loan_term) ==
    IF rent_or_buy = Rent THEN monthly_rent * 12
    ELSE IF age < buy_age THEN monthly_rent * 12
    ELSE IF age = buy_age
         THEN DTrunc(DAdd(DFromInt(down_payment), DMul(monthly_mortgage, DFromInt(12))))
    ELSE IF buy_age < age /\ age < buy_age + loan_term
         THEN DTrunc(DMul(monthly_mortgage, DFromInt(12)))
    ELSE 0

(***************************************************************************)
(* The level mortgage payment of calculate_retirement_cashflow.            *)
(***************************************************************************)
\* lr_monthly = loan_rate / 100 / 12
LrMonthly(loan_rate) == DDiv(Pct(loan_rate), DFromInt(12))

\* what (1 + lr_monthly) ** (-loan_term * 12) can be
MortgagePowers(loan_term, loan_rate) ==
    PowOutcomes(DAdd(DFromInt(1), LrMonthly(loan_rate)), -(loan_term * 12))

\* the divisor 1 - (1 + lr_monthly) ** (-loan_term * 12), discount being the
\* value of the power
MortgageDivisor(discount) == DSub(DFromInt(1), discount)

\* the float division raises ZeroDivisionError when the divisor is 0.0
MortgageRaises(loan_amount, loan_term, discount) ==
    /\ loan_amount > 0
    /\ loan_term > 0
    /\ MortgageDivisor(discount) = DZero

\* the power is evaluated only with a loan
MonthlyMortgage(loan_amount, loan_term, loan_rate, discount) ==
    IF loan_amount > 0 /\ loan_term > 0
    THEN DDiv(DMul(DFromInt(loan_amount), LrMonthly(loan_rate)),
              MortgageDivisor(discount))
    ELSE DZero

(***************************************************************************)
(* lumpsum_map: age -> summed amount of the entries that pass the filter.  *)
(***************************************************************************)
EmptyMap == [a \in {} |-> 0]

MapGet(m, k) == IF k \in DOMAIN m THEN m[k] ELSE 0

MapPut(m, k, v) == [a \in (DOMAIN m) \cup {k} |-> IF a = k THEN v ELSE m[a]]

RECURSIVE LumpsumFold(_, _, _, _)
LumpsumFold(list, k, current_age, m) ==
    IF k > Len(list) THEN m
    ELSE LET exp_age == list[k].age
             exp_amt == list[k].amt
         IN  IF exp_age < current_age \/ exp_amt = 0
             THEN LumpsumFold(list, k + 1, current_age, m)
             ELSE LumpsumFold(list, k + 1, current_age,
                              MapPut(m, exp_age, MapGet(m, exp_age) + exp_amt))

\* a slip: an entry dated before current_age is booked at current_age
RECURSIVE LumpsumFoldClamp(_, _, _, _)
LumpsumFoldClamp(list, k, current_age, m) ==
    IF k > Len(list) THEN m
    ELSE LET exp_age == IF list[k].age < current_age THEN current_age
                        ELSE list[k].age
             exp_amt == list[k].amt
         IN  IF exp_amt = 0
             THEN LumpsumFoldClamp(list, k + 1, current_age, m)
             ELSE LumpsumFoldClamp(list, k + 1, current_age,
                              MapPut(m, exp_age, MapGet(m, exp_age) + exp_amt))

\* a slip: a later entry at the same age replaces the earlier one
RECURSIVE LumpsumFoldOverwrite(_, _, _, _)
LumpsumFoldOverwrite(list, k, current_age, m) ==
    IF k > Len(list) THEN m
    ELSE LET exp_age == list[k].age
             exp_amt == list[k].amt
         IN  IF exp_age < current_age \/ exp_amt = 0
             THEN LumpsumFoldOverwrite(list, k + 1, current_age, m)
             ELSE LumpsumFoldOverwrite(list, k + 1, current_age,
                              MapPut(m, exp_age, exp_amt))

LumpsumMapClamp(list, current_age) == LumpsumFoldClamp(list, 1, current_age, EmptyMap)

LumpsumMapOverwrite(list, current_age) == LumpsumFoldOverwrite(list, 1, current_age, EmptyMap)

LumpsumMap(list, current_age) == LumpsumFold(list, 1, current_age, EmptyMap)

(***************************************************************************)
(* The pieces of one loop iteration.                                       *)
(***************************************************************************)
\* ages = list(range(current_age, expected_lifespan + 1))
AgesShort(current_age, expected_lifespan) ==
    [k \in 1..(IF expected_lifespan > current_age
               THEN expected_lifespan - current_age ELSE 0)
        |-> current_age + k - 1]

Ages(current_age, expected_lifespan) ==
    [k \in 1..(IF expected_lifespan + 1 > current_age
               THEN expected_lifespan + 1 - current_age ELSE 0)
        |-> current_age + k - 1]

SalaryIncome(current_salary, age, retirement_age) ==
    IF age <= retirement_age THEN DTrunc(current_salary) ELSE 0

NextSalary(current_salary, age, retirement_age, salary_growth) ==
    IF age < retirement_age
    THEN DMul(current_salary, OnePlusPct(salary_growth))
    ELSE current_salary

InvestmentIncome(remaining_assets, investment_return) ==
    IF DPos(remaining_assets)
    THEN DTrunc(DMul(remaining_assets, Pct(investment_return)))
    ELSE 0

PensionIncomeEarly(retirement_pension, age, retirement_age) ==
    IF age >= retirement_age THEN retirement_pension * 12 ELSE 0

PensionIncome(retirement_pension, age, retirement_age) ==
    IF age > retirement_age THEN retirement_pension * 12 ELSE 0

\* what (1 + inflation_rate / 100) ** i can be
InflationPowers(inflation_rate, i) == PowOutcomes(OnePlusPct(inflation_rate), i)

\* (living_expense + housing_expense) * ((1 + inflation_rate / 100) ** i),
\* factor being the value of the power
BaseExpense(living_expense, housing_expense, factor) ==
    DMul(DFromInt(living_expense + housing_expense), factor)

AssetUpdateMinus(remaining_assets, annual_balance, investment_return, inflation_rate) ==
    DDiv(DMul(DSub(remaining_assets, DFromInt(annual_balance)),
              OnePlusPct(investment_return)),
         OnePlusPct(inflation_rate))

AssetUpdateClamped(remaining_assets, annual_balance, investment_return, inflation_rate) ==
    LET v == DDiv(DMul(DAdd(remaining_assets, DFromInt(annual_balance)),
                       OnePlusPct(investment_return)),
                  OnePlusPct(inflation_rate))
    IN  IF v[1] < 0 THEN DZero ELSE v

AssetUpdate(remaining_assets, annual_balance, investment_return, inflation_rate) ==
    DDiv(DMul(DAdd(remaining_assets, DFromInt(annual_balance)),
              OnePlusPct(investment_return)),
         OnePlusPct(inflation_rate))

\* one pass of the loop body for index i (zero-based) and its age, factor
\* being the value of (1 + inflation_rate / 100) ** i
LoopBody(P, mortgage, lmap, i, age, salary, assets, factor) ==
    Bind2(InvestmentIncome(assets, P.investment_return),
          calc_housing_expense(age, P.rent_or_buy, P.monthly_rent, P.buy_age,
                               P.down_payment, mortgage, P.loan_term),
          LAMBDA investment_income, housing_expense :
      LET salary_income == SalaryIncome(salary, age, P.retirement_age)
          pension_income == PensionIncome(P.retirement_pension, age, P.retirement_age)
          total_income == salary_income + investment_income + pension_income
          living_expense == P.monthly_expense * 12
          base_expense == BaseExpense(living_expense, housing_expense, factor)
          lumpsum_expense == MapGet(lmap, age)
      IN  Bind(DTrunc(base_expense) + lumpsum_expense, LAMBDA total_expense :
            Bind(AssetUpdate(assets, total_income - total_expense,
                             P.investment_return, P.inflation_rate),
                 LAMBDA new_assets :
              [row |-> [age |-> age,
                        salary_income |-> salary_income,
                        investment_income |-> investment_income,
                        pension_income |-> pension_income,
                        total_income |-> total_income,
                        living_expense |-> living_expense,
                        housing_expense |-> housing_expense,
                        lumpsum_expense |-> lumpsum_expense,
                        total_expense |-> total_expense,
                        annual_balance |-> total_income - total_expense,
                        remaining_assets |-> new_assets],
               salary |-> NextSalary(salary, age, P.retirement_age, P.salary_growth),
               assets |-> new_assets])))

(***************************************************************************)
(* The whole projection as a function of its arguments and of the values   *)
(* its powers take (discount on line 86, factors[i + 1] in iteration i of  *)
(* line 114), used to compare the run of the state machine with the run on *)
(* another expense list.                                                   *)
(***************************************************************************)
RECURSIVE RowsFrom(_, _, _, _, _, _, _, _)
RowsFrom(P, mortgage, lmap, ages, i, salary, assets, factors) ==
    IF i >= Len(ages) THEN <<>>
    ELSE Bind(LoopBody(P, mortgage, lmap, i, ages[i + 1], salary, assets,
                       factors[i + 1]),
              LAMBDA s : <<s.row>> \o RowsFrom(P, mortgage, lmap, ages, i + 1,
                                               s.salary, s.assets, factors))

\* defined when the mortgage payment does not raise
Cashflow(P, list, discount, factors) ==
    Bind2(MonthlyMortgage(P.loan_amount, P.loan_term, P.loan_rate, discount),
          LumpsumMap(list, P.current_age),
          LAMBDA mortgage, lmap :
      RowsFrom(P, mortgage, lmap, Ages(P.current_age, P.expected_lifespan),
               0, DFromInt(P.annual_salary), DFromInt(P.investable_assets),
               factors))

RemoveAt(s, k) == SubSeq(s, 1, k - 1) \o SubSeq(s, k + 1, Len(s))

(***************************************************************************)
(* The input collector.                                                    *)
(***************************************************************************)
\* current_age, then retirement_age >= current_age, then
\* expected_lifespan >= retirement_age
AgeInputs ==
    {a \in [current_age : CurrentAges,
            retirement_age : RetirementAges,
            expected_lifespan : 40..150] :
        /\ a.retirement_age >= a.current_age
        /\ a.expected_lifespan >= a.retirement_age
        /\ a.expected_lifespan \in {a.retirement_age, a.current_age + MaxSpan}}

BasicInputs ==
    [monthly_expense : MonthlyExpenses,
     annual_salary : AnnualSalaries,
     salary_growth : SalaryGrowths,
     investable_assets : InvestableAssets,
     investment_return : InvestmentReturns,
     retirement_pension : RetirementPensions,
     inflation_rate : InflationRates]

\* Rent zeroes the purchase fields and sets buy_age = current_age; the
\* buy_age widget of Buy runs from 18 to expected_lifespan
HousingInputs(current_age, expected_lifespan) ==
    [rent_or_buy : {Rent}, monthly_rent : MonthlyRents, buy_age : {current_age},
     home_price : {0}, down_payment : {0}, loan_amount : {0},
     loan_term : {0}, loan_rate : {0}]
    \cup
    [rent_or_buy : {Buy}, monthly_rent : MonthlyRents,
     buy_age : {b \in BuyAges : 18 <= b /\ b <= expected_lifespan},
     home_price : HomePrices, down_payment : DownPayments,
     loan_amount : LoanAmounts, loan_term : LoanTerms, loan_rate : LoanRates]

Merge(f, g) == [k \in (DOMAIN f) \cup (DOMAIN g) |->
                  IF k \in DOMAIN f THEN f[k] ELSE g[k]]

ParamSpace ==
    UNION {{Merge(Merge(a, b), h) : b \in BasicInputs,
                                     h \in HousingInputs(a.current_age,
                                                          a.expected_lifespan)} :
           a \in AgeInputs}

(***************************************************************************)
(* State.                                                                  *)
(***************************************************************************)
VARIABLES
    params,            \* the widget values passed to the projection
    lumpsum_list,      \* st.session_state["lumpsum_list"]
    pc,                \* "input", "loop", "done" or "raised"
    monthly_mortgage,  \* locals of calculate_retirement_cashflow
    lumpsum_map,
    ages,
    current_salary,
    remaining_assets,
    i,
    data,
    discount,          \* the value (1 + lr_monthly) ** (-loan_term * 12) took
    factors            \* the values (1 + inflation_rate / 100) ** i took

vars == <<params, lumpsum_list, pc, monthly_mortgage, lumpsum_map, ages,
          current_salary, remaining_assets, i, data, discount, factors>>

locals == <<monthly_mortgage, lumpsum_map, ages, current_salary,
            remaining_assets, i, data, discount, factors>>

Init ==
    /\ params \in ParamSpace
    /\ lumpsum_list = <<>>
    /\ pc = "input"
    /\ monthly_mortgage = DZero
    /\ lumpsum_map = EmptyMap
    /\ ages = <<>>
    /\ current_salary = DZero
    /\ remaining_assets = DZero
    /\ i = 0
    /\ data = <<>>
    /\ discount = DZero
    /\ factors = <<>>

\* the "add one-time expense" button
AddLumpsum(new_age, new_amt) ==
    /\ pc = "input"
    /\ Len(lumpsum_list) < MaxLump
    /\ IF new_age >= 30 /\ new_amt # 0
       THEN lumpsum_list' = Append(lumpsum_list, [age |-> new_age, amt |-> new_amt])
       ELSE UNCHANGED lumpsum_list
    /\ UNCHANGED <<params, pc, locals>>

\* the per-entry delete button
DeleteLumpsum(idx) ==
    /\ pc = "input"
    /\ idx \in 1..Len(lumpsum_list)
    /\ lumpsum_list' = RemoveAt(lumpsum_list, idx)
    /\ UNCHANGED <<params, pc, locals>>

\* update_payments, the on_change callback of the home_price widget
UpdatePayments(new_home_price) ==
    /\ pc = "input"
    /\ params.rent_or_buy = Buy
    /\ new_home_price # params.home_price
    /\ \E down \in {DTrunc(DMul(DFromInt(new_home_price),
                                 DDiv(DFromInt(3), DFromInt(10))))} :
           params' = [params EXCEPT !.home_price = new_home_price,
                                    !.down_payment = down,
                                    !.loan_amount = new_home_price - down]
    /\ UNCHANGED <<lumpsum_list, pc, locals>>

\* a basic-input widget is edited between two runs of the script
EditInputs(b) ==
    /\ pc = "input"
    /\ params' = Merge(b, params)
    /\ params' # params
    /\ UNCHANGED <<lumpsum_list, pc, locals>>

\* the call: everything before the loop; without a loan the power of line
\* 86 is not evaluated
Calculate ==
    /\ pc = "input"
    /\ ages' = Ages(params.current_age, params.expected_lifespan)
    /\ remaining_assets' = DFromInt(params.investable_assets)
    /\ \E d \in IF params.loan_amount > 0 /\ params.loan_term > 0
                THEN MortgagePowers(params.loan_term, params.loan_rate)
                ELSE {DZero} :
          /\ discount' = d
          /\ IF MortgageRaises(params.loan_amount, params.loan_term, d)
             THEN /\ pc' = "raised"
                  /\ UNCHANGED <<monthly_mortgage, lumpsum_map, current_salary,
                                 i, data>>
             ELSE /\ pc' = "loop"
                  /\ monthly_mortgage' = MonthlyMortgage(params.loan_amount,
                                             params.loan_term, params.loan_rate, d)
                  /\ lumpsum_map' = LumpsumMap(lumpsum_list, params.current_age)
                  /\ current_salary' = DFromInt(params.annual_salary)
                  /\ i' = 0
                  /\ data' = <<>>
    /\ UNCHANGED <<params, lumpsum_list, factors>>

\* one iteration of "for i, age in enumerate(ages)", with either value
\* the power of line 114 can take
LoopStep ==
    /\ pc = "loop"
    /\ i < Len(ages)
    /\ \E factor \in InflationPowers(params.inflation_rate, i) :
         \E s \in {LoopBody(params, monthly_mortgage, lumpsum_map, i, ages[i + 1],
                             current_salary, remaining_assets, factor)} :
           /\ data' = Append(data, s.row)
           /\ current_salary' = s.salary
           /\ remaining_assets' = s.assets
           /\ factors' = Append(factors, factor)
    /\ i' = i + 1
    /\ UNCHANGED <<params, lumpsum_list, pc, monthly_mortgage, lumpsum_map, ages,
                   discount>>

\* the loop is exhausted: the rows are returned
Return ==
    /\ pc = "loop"
    /\ i >= Len(ages)
    /\ pc' = "done"
    /\ UNCHANGED <<params, lumpsum_list, locals>>

\* the script runs again from the top: the table (or the exception) of the
\* last run is gone, the widget values and the expense list stay
Rerun ==
    /\ pc \in {"done", "raised"}
    /\ pc' = "input"
    /\ monthly_mortgage' = DZero
    /\ lumpsum_map' = EmptyMap
    /\ ages' = <<>>
    /\ current_salary' = DZero
    /\ remaining_assets' = DZero
    /\ i' = 0
    /\ data' = <<>>
    /\ discount' = DZero
    /\ factors' = <<>>
    /\ UNCHANGED <<params, lumpsum_list>>

Next ==
    \/ \E e \in NewEntries : AddLumpsum(e[1], e[2])
    \/ \E new_home_price \in NewHomePrices : UpdatePayments(new_home_price)
    \/ \E b \in BasicInputs : EditInputs(b)
    \/ Rerun
    \/ \E idx \in 1..MaxLump : DeleteLumpsum(idx)
    \/ Calculate
    \/ LoopStep
    \/ Return

Spec == Init /\ [][Next]_vars

(***************************************************************************)
(* Properties.                                                             *)
(***************************************************************************)
Rows == 1..Len(data)

\* the balance a row starts from
StartAssets(n) == IF n = 1 THEN DFromInt(params.investable_assets)
                  ELSE data[n - 1].remaining_assets

ValidAges ==
    /\ params.current_age < params.retirement_age
    /\ params.retirement_age <= params.expected_lifespan

\* C1: in Buy mode every row's housing_expense is chosen by its age alone:
\* the rent of twelve months before purchase_age, down_payment plus twelve
\* monthly payments at purchase_age, twelve monthly payments strictly inside
\* the loan term, 0 from purchase_age + loan_term on (also when purchase_age
\* lies before current_age); in Rent mode it is twelve months of rent in
\* every row.  The amounts are whole numbers, as int() leaves them.
C1_HousingByAge ==
    \A n \in Rows :
        LET age == data[n].age
            h == data[n].housing_expense
        IN  IF params.rent_or_buy = Rent
            THEN h = params.monthly_rent * 12
            ELSE /\ age < params.buy_age => h = params.monthly_rent * 12
                 /\ age = params.buy_age =>
                      h = DTrunc(DAdd(DFromInt(params.down_payment),
                                      DMul(DFromInt(12), monthly_mortgage)))
                 /\ (params.buy_age < age /\ age < params.buy_age + params.loan_term) =>
                      h = DTrunc(DMul(DFromInt(12), monthly_mortgage))
                 /\ age >= params.buy_age + params.loan_term => h = 0

C1_Witness ==
    /\ pc = "done"
    /\ params.rent_or_buy = Buy
    /\ DPos(monthly_mortgage)
    /\ \E n \in Rows : data[n].age < params.buy_age /\ data[n].housing_expense > 0
    /\ \E n \in Rows : data[n].age = params.buy_age
    /\ \E n \in Rows : /\ params.buy_age < data[n].age
                       /\ data[n].age < params.buy_age + params.loan_term
                       /\ data[n].housing_expense > 0
    /\ \E n \in Rows : /\ data[n].age >= params.buy_age + params.loan_term
                       /\ data[n].housing_expense = 0
    /\ Cardinality(MortgagePowers(params.loan_term, params.loan_rate)) = 2

\* C2: with a loan (loan_amount > 0, loan_term > 0) at a rate of exactly 0%
\* the call does not raise and the monthly payment is
\* loan_amount / (loan_term * 12).
C2_ZeroRateDoesNotRaise ==
    (/\ params.loan_amount > 0
     /\ params.loan_term > 0
     /\ params.loan_rate = 0
     /\ pc # "input")
    => /\ pc # "raised"
       /\ monthly_mortgage = DDiv(DFromInt(params.loan_amount),
                                  DFromInt(params.loan_term * 12))

InvalidEntry(e) == e.age < params.current_age \/ e.amt <= 0

DroppedEntry(e) == e.age < params.current_age \/ e.amt = 0

\* C3 as stated: an entry with age < current_age or amount <= 0 (a negative
\* amount included) is excluded: the rows are those of the run without it.
C3_NonPositiveExcluded ==
    pc = "done" =>
        \A k \in 1..Len(lumpsum_list) :
            InvalidEntry(lumpsum_list[k]) =>
                data = Cashflow(params, RemoveAt(lumpsum_list, k), discount, factors)

\* C3 amended: an entry with age < current_age or amount = 0 is excluded:
\* the rows are those of the run without it.
C3_PastOrZeroExcluded ==
    pc = "done" =>
        \A k \in 1..Len(lumpsum_list) :
            DroppedEntry(lumpsum_list[k]) =>
                data = Cashflow(params, RemoveAt(lumpsum_list, k), discount, factors)

C3_Witness ==
    /\ pc = "done"
    /\ Len(data) >= 2
    /\ \E k \in 1..Len(lumpsum_list) :
          /\ lumpsum_list[k].age < params.current_age
          /\ lumpsum_list[k].amt > 0
    /\ \E k \in 1..Len(lumpsum_list) :
          /\ lumpsum_list[k].age >= params.current_age
          /\ \E n \in Rows : data[n].age = lumpsum_list[k].age

\* C4: ages that violate current_age < retirement_age <= expected_lifespan
\* are rejected before any row is produced.
C4_InvalidAgesRejected ==
    ~ValidAges => Len(data) = 0

\* C5: an entry {age: A, amount: M} with A >= current_age and M > 0 raises
\* total_expense by exactly M in the row with age A and by 0 in every other
\* row, compared with the run without the entry; entries at one age add up.
C5_LumpsumIsolation ==
    pc = "done" =>
        \A k \in 1..Len(lumpsum_list) :
            LET e == lumpsum_list[k]
                ref == Cashflow(params, RemoveAt(lumpsum_list, k), discount, factors)
            IN  (e.age >= params.current_age /\ e.amt > 0) =>
                    /\ Len(ref) = Len(data)
                    /\ \A n \in Rows :
                          data[n].total_expense - ref[n].total_expense
                             = IF data[n].age = e.age THEN e.amt ELSE 0

C5_Witness ==
    /\ pc = "done"
    /\ Len(lumpsum_list) = 2
    /\ lumpsum_list[1].age = lumpsum_list[2].age
    /\ lumpsum_list[1].amt > 0
    /\ lumpsum_list[2].amt # 0
    /\ params.inflation_rate > 0
    /\ \E n \in Rows : /\ n > 1
                       /\ data[n].age = lumpsum_list[1].age
                       /\ data[n].lumpsum_expense
                            = lumpsum_list[1].amt + lumpsum_list[2].amt

\* annual_salary after k years of growth
RECURSIVE GrownSalary(_)
GrownSalary(k) ==
    IF k = 0 THEN DFromInt(params.annual_salary)
    ELSE DMul(GrownSalary(k - 1), OnePlusPct(params.salary_growth))

\* C6: salary_income is 0 in every row after retirement_age and is the
\* grown salary in the row of retirement_age itself; pension_income is 0 up
\* to and including retirement_age and retirement_pension * 12 after it; no
\* row has both.
C6_IncomeCutoff ==
    \A n \in Rows :
        LET r == data[n]
        IN  /\ r.age > params.retirement_age => r.salary_income = 0
            /\ r.age <= params.retirement_age => r.pension_income = 0
            /\ r.age = params.retirement_age =>
                  r.salary_income = DTrunc(GrownSalary(n - 1))
            /\ r.age > params.retirement_age =>
                  r.pension_income = params.retirement_pension * 12
            /\ ~(r.salary_income # 0 /\ r.pension_income # 0)

C6_Witness ==
    /\ pc = "done"
    /\ \E n \in Rows : /\ n > 1
                       /\ data[n].age = params.retirement_age
                       /\ data[n].salary_income > params.annual_salary
    /\ \E n \in Rows : /\ data[n].age > params.retirement_age
                       /\ data[n].pension_income > 0

\* C7: for valid ages the returned table has expected_lifespan -
\* current_age + 1 rows, starting at current_age, ending at
\* expected_lifespan, each age one more than the one before.
C7_RowCountAndOrder ==
    (pc = "done" /\ ValidAges) =>
        /\ Len(data) = params.expected_lifespan - params.current_age + 1
        /\ data[1].age = params.current_age
        /\ data[Len(data)].age = params.expected_lifespan
        /\ \A n \in 2..Len(data) : data[n].age = data[n - 1].age + 1

C7_Witness ==
    /\ pc = "done"
    /\ ValidAges
    /\ Len(data) >= 3

\* C8: with investment_return = 0 and inflation_rate = 0 every row's
\* cumulative balance is the previous one (investable_assets for the first
\* row) plus the row's annual_balance, exactly.
C8_ZeroRateSanity ==
    (params.investment_return = 0 /\ params.inflation_rate = 0) =>
        \A n \in Rows :
            data[n].remaining_assets
               = DAdd(StartAssets(n), DFromInt(data[n].annual_balance))

C8_Witness ==
    /\ pc = "done"
    /\ params.investment_return = 0
    /\ params.inflation_rate = 0
    /\ \E n \in Rows : n > 1 /\ data[n].annual_balance < 0
    /\ \E n \in Rows : data[n].annual_balance > 0

\* C9: investment_income does not add to the balance: every row's
\* cumulative balance is the starting balance plus salary and pension minus
\* total_expense, times (1 + return) / (1 + inflation).
C9_IncomeNotAddedToBalance ==
    \A n \in Rows :
        data[n].remaining_assets
           = DDiv(DMul(DAdd(StartAssets(n),
                            DFromInt(data[n].salary_income + data[n].pension_income
                                     - data[n].total_expense)),
                       OnePlusPct(params.investment_return)),
                  OnePlusPct(params.inflation_rate))

\* C10: a negative cumulative balance is the next row's starting balance
\* as it is: each row's cumulative balance is (start + annual_balance) *
\* (1 + return) / (1 + inflation) whatever the signs, the next iteration
\* starts from the last row's cumulative balance, and investment_income is
\* 0 when the row starts at or below 0 and int(start * return / 100) when
\* it starts above 0.
C10_NegativePropagated ==
    /\ \A n \in Rows :
          /\ data[n].remaining_assets
                = DDiv(DMul(DAdd(StartAssets(n), DFromInt(data[n].annual_balance)),
                            OnePlusPct(params.investment_return)),
                       OnePlusPct(params.inflation_rate))
          /\ data[n].investment_income
                = IF DPos(StartAssets(n))
                  THEN DTrunc(DMul(StartAssets(n), Pct(params.investment_return)))
                  ELSE 0
    /\ Len(data) > 0 => remaining_assets = data[Len(data)].remaining_assets

C10_Witness ==
    /\ pc = "done"
    /\ \E n \in Rows : /\ n > 1
                       /\ data[n - 1].remaining_assets[1] < 0
                       /\ data[n].investment_income = 0
                       /\ data[n].remaining_assets[1] < 0
                       /\ data[n].remaining_assets # data[n - 1].remaining_assets
    /\ \E n \in Rows : data[n].investment_income > 0

=============================================================================
